---- MODULE Spec2Model ----
(***************************************************************************)
(* Model of the two report pipelines of reviewflow:                        *)
(*   scripts/compute_coverage_metrics.py  (coverage report)                *)
(*   scripts/make_sensitivity.py          (sensitivity tables)             *)
(*                                                                         *)
(* Numbers.  Python floats are modelled as fixed-point integers.  Depths   *)
(* are whole numbers; breadth, mean depth and evenness are carried in      *)
(* units of 1/Scale, the precision of the '.3f' format of the report.      *)
(* Sensitivity fields are carried in half units (Float), so that a         *)
(* decimal literal such as "1.5" is a value float() accepts and int()      *)
(* rejects.                                                                *)
(*                                                                         *)
(* Names.  A file name is a sequence of characters drawn from NameChars;   *)
(* the character 0 stands for the text ".depth" (it sorts before the       *)
(* letters, as '.' does), 1 and 2 stand for the letters "a" and "b".       *)
(***************************************************************************)
EXTENDS Integers, Sequences, FiniteSets, TLC

VARIABLES
    \* ---- compute_coverage_metrics.py ----
    in_dir,        \* the directory --in_dir: name -> [kind, lines]
    listing,       \* what os.listdir returned (any order)
    files,         \* main's list `files`
    idx,           \* number of entries of `files` the for loop has finished
    depths,        \* the depth list of the file processed last
    metrics,       \* <<breadth, mean_depth, evenness>> of that file
    out_csv,       \* the file --out
    cov_pc,        \* position of main
    \* ---- make_sensitivity.py ----
    tsv,           \* the records csv.reader yields for --in
    bits_list,     \* args.bits
    args,          \* args.evalue, args.cons_pident, args.cons_qcov
    rows,          \* main's `rows`
    summaries,     \* main's `summaries`
    detailed,      \* main's `detailed`
    out_summary,   \* Table_Sx_sensitivity.csv
    out_detailed,  \* Table_Sx_detailed.csv
    err,           \* the exception that ended the run, if any
    sens_pc        \* position of main

cov_vars == <<in_dir, listing, files, idx, depths, metrics, out_csv, cov_pc>>
sens_vars == <<tsv, bits_list, args, rows, summaries, detailed, out_summary,
               out_detailed, err, sens_pc>>
vars == <<cov_vars, sens_vars>>

----------------------------------------------------------------------------
(* Bounds of the model *)

MaxLines == 3
MaxFiles == 2
MaxDepth == 3
MaxRecords == 3
MaxHits == 2
MaxThresholds == 2

----------------------------------------------------------------------------
(* Generic helpers *)

Range(s) == {s[i] : i \in 1..Len(s)}

Perms(S) == {s \in [1..Cardinality(S) -> S] : Range(s) = S}

SeqsUpTo(S, n) == UNION {[1..k -> S] : k \in 0..n}

RECURSIVE SumSeq(_)
SumSeq(s) == IF s = <<>> THEN 0 ELSE Head(s) + SumSeq(Tail(s))

\* Largest r with r * r <= n, found by bisection on lo..hi.
RECURSIVE ISqrtIn(_, _, _)
ISqrtIn(n, lo, hi) ==
    IF lo >= hi THEN lo
    ELSE LET mid == (lo + hi + 1) \div 2
         IN  IF mid * mid <= n THEN ISqrtIn(n, mid, hi)
             ELSE ISqrtIn(n, lo, mid - 1)

\* math.sqrt on fixed-point input (truncating).
ISqrt(n) == ISqrtIn(n, 0, 46340)

----------------------------------------------------------------------------
(* compute_coverage_metrics.py *)

\* Fixed-point unit: three decimals, as the report prints them.
Scale == 1000

\* '.depth', the suffix tested by endswith and removed by rsplit.
DepthSuffix == <<0>>

\* --breadth_cutoff and --evenness_cutoff defaults (5.0 and 0.5).
breadth_cutoff == 5 * Scale
evenness_cutoff == Scale \div 2

\* A field of a line: text float() accepts (num, with its value) or not.
NumField(v) == [num |-> TRUE, v |-> v]
TxtField == [num |-> FALSE, v |-> 0]

\* str.endswith
endswith(f, suffix) ==
    /\ Len(f) >= Len(suffix)
    /\ SubSeq(f, Len(f) - Len(suffix) + 1, Len(f)) = suffix

\* fn.rsplit('.depth', 1)[0]: the text before the last occurrence of the
\* separator, the whole text when there is none.
RECURSIVE rsplit0(_, _)
rsplit0(fn, sep) ==
    IF Len(fn) < Len(sep) THEN fn
    ELSE IF endswith(fn, sep) THEN SubSeq(fn, 1, Len(fn) - Len(sep))
    ELSE LET r == rsplit0(SubSeq(fn, 1, Len(fn) - 1), sep)
         IN  IF r = SubSeq(fn, 1, Len(fn) - 1) THEN fn ELSE r

\* Python's order on str: lexicographic, a proper prefix first.
RECURSIVE StrLess(_, _)
StrLess(a, b) ==
    IF b = <<>> THEN FALSE
    ELSE IF a = <<>> THEN TRUE
    ELSE IF Head(a) # Head(b) THEN Head(a) < Head(b)
    ELSE StrLess(Tail(a), Tail(b))

RECURSIVE InsertSorted(_, _)
InsertSorted(x, s) ==
    IF s = <<>> THEN <<x>>
    ELSE IF StrLess(x, Head(s)) THEN <<x>> \o s
    ELSE <<Head(s)>> \o InsertSorted(x, Tail(s))

\* Mutant: the list is left in listing order.
list_sort_unsorted(s) == s

\* list.sort()
RECURSIVE list_sort(_)
list_sort(s) ==
    IF s = <<>> THEN <<>> ELSE InsertSorted(Head(s), list_sort(Tail(s)))

\* [f for f in os.listdir(in_dir) if f.endswith('.depth')]
depth_files(names) == SelectSeq(names, LAMBDA f : endswith(f, DepthSuffix))

\* Mutant: a depth that does not parse counts as 0 instead of being skipped.
RECURSIVE read_depth_file_keep(_)
read_depth_file_keep(lines) ==
    IF lines = <<>> THEN <<>>
    ELSE LET parts == Head(lines)
             rest == read_depth_file_keep(Tail(lines))
         IN  IF Len(parts) < 2 THEN rest
             ELSE IF ~parts[2].num THEN <<0>> \o rest
             ELSE <<parts[2].v>> \o rest

\* read_depth_file: the loop over the lines of the file.  A line is the
\* list line.split() gives (empty for a blank line).
RECURSIVE read_depth_file(_)
read_depth_file(lines) ==
    IF lines = <<>> THEN <<>>
    ELSE LET parts == Head(lines)
             rest == read_depth_file(Tail(lines))
         IN  IF Len(parts) = 0 THEN rest
             ELSE IF Len(parts) < 2 THEN rest
             ELSE IF ~parts[2].num THEN rest
             ELSE <<parts[2].v>> \o rest

\* statistics.pstdev, in units of 1/Scale: sqrt(sum((x - mean)^2) / n),
\* where n * sum((x - mean)^2) = n * sum(x^2) - sum(x)^2.
pstdev(ds) ==
    LET n == Len(ds)
        s == SumSeq(ds)
        q == SumSeq([i \in 1..n |-> ds[i] * ds[i]])
    IN  ISqrt(((n * q - s * s) * Scale * Scale) \div (n * n))

\* Mutant: the lower clamp of evenness (lines 71-72) is missing.
compute_metrics_noclamp(ds) ==
    IF ds = <<>> THEN <<0, 0, 0>>
    ELSE LET total_positions == Len(ds)
             covered_positions == Cardinality({i \in 1..Len(ds) : ds[i] > 0})
             breadth == (100 * Scale * covered_positions) \div total_positions
             mean_depth == (SumSeq(ds) * Scale) \div total_positions
             sd == IF Len(ds) > 1 THEN pstdev(ds) ELSE 0
             raw == Scale - ((sd * Scale) \div mean_depth)
             evenness == IF mean_depth <= 0 THEN 0
                         ELSE IF raw > Scale THEN Scale
                         ELSE raw
         IN  <<breadth, mean_depth, evenness>>

\* compute_metrics: <<breadth, mean_depth, evenness>> in units of 1/Scale.
compute_metrics(ds) ==
    IF ds = <<>> THEN <<0, 0, 0>>
    ELSE LET total_positions == Len(ds)
             covered_positions == Cardinality({i \in 1..Len(ds) : ds[i] > 0})
             breadth == (100 * Scale * covered_positions) \div total_positions
             mean_depth == (SumSeq(ds) * Scale) \div total_positions
             sd == IF Len(ds) > 1 THEN pstdev(ds) ELSE 0
             raw == Scale - ((sd * Scale) \div mean_depth)
             evenness == IF mean_depth <= 0 THEN 0
                         ELSE IF raw < 0 THEN 0
                         ELSE IF raw > Scale THEN Scale
                         ELSE raw
         IN  <<breadth, mean_depth, evenness>>

\* f'{x:.3f}': sign, whole part and three decimals.
fmt3(x) ==
    LET a == IF x < 0 THEN 0 - x ELSE x
    IN  [neg |-> x < 0, whole |-> a \div Scale, frac |-> a % Scale]

\* The data row main writes for one file (lines 88-92).
coverage_row(fn, m) ==
    LET passed == (m[3] >= evenness_cutoff /\ m[1] >= breadth_cutoff)
    IN  [target |-> rsplit0(fn, DepthSuffix),
         breadth_pct |-> fmt3(m[1]),
         mean_depth |-> fmt3(m[2]),
         cov_evenness |-> fmt3(m[3]),
         pass_conservative |-> IF passed THEN 1 ELSE 0]

\* A file on disk: absent, left from an earlier run ("old"), or written by
\* this run ("new": header tells whether the header row is in it).
NoFile == [state |-> "absent", header |-> FALSE, rows |-> <<>>]
OldFile == [state |-> "old", header |-> TRUE, rows |-> <<>>]
open_w == [state |-> "new", header |-> FALSE, rows |-> <<>>]

----------------------------------------------------------------------------
(* make_sensitivity.py *)

\* A field of a TSV record.  "int": an integer literal of value v; "dec":
\* the decimal literal v + 0.5; "txt": text that is no number; "cmt": text
\* that starts with '#'.
IntField(v) == [k |-> "int", v |-> v]
DecField(v) == [k |-> "dec", v |-> v]
TextField(v) == [k |-> "txt", v |-> v]
CommentField == [k |-> "cmt", v |-> 0]

\* float(): accepts integer and decimal literals; the value in half units.
float_ok(f) == f.k \in {"int", "dec"}
Float(f) == IF f.k = "int" THEN 2 * f.v ELSE 2 * f.v + 1

\* int(): accepts integer literals only.
int_ok(f) == f.k = "int"

\* The exception a run ends with.  The ValueError of line 51 carries a fixed
\* text; the ValueError of float() and int() names the text that failed to
\* convert.  Neither carries a line number or the path of the input, which
\* lineno = 0 and path = "" record.
NoErr == [exc |-> "none", msg |-> "", lineno |-> 0, path |-> ""]
ValueError(m) == [exc |-> "ValueError", msg |-> m, lineno |-> 0, path |-> ""]

\* Defaults of parse_args: --evalue, --cons_pident, --cons_qcov, in half
\* units of the model's value scale.
DefaultArgs == [infile |-> "in.tsv", evalue |-> 2, cons_pident |-> 4, cons_qcov |-> 4]

\* Mutant: a short row is skipped, as the coverage reader would do.
RECURSIVE read_tsv_skip(_)
read_tsv_skip(recs) ==
    IF recs = <<>> THEN [ok |-> TRUE, rows |-> <<>>, err |-> NoErr]
    ELSE LET r == Head(recs)
             rest == read_tsv_skip(Tail(recs))
         IN  IF Len(r) < 8 THEN rest
             ELSE IF r[1].k = "cmt" THEN rest
             ELSE IF ~(float_ok(r[3]) /\ float_ok(r[4]) /\ float_ok(r[5])) THEN
                 [ok |-> FALSE, rows |-> <<>>,
                  err |-> ValueError("could not convert string to float")]
             ELSE IF ~int_ok(r[6]) THEN
                 [ok |-> FALSE, rows |-> <<>>,
                  err |-> ValueError("invalid literal for int()")]
             ELSE IF ~(float_ok(r[7]) /\ float_ok(r[8])) THEN
                 [ok |-> FALSE, rows |-> <<>>,
                  err |-> ValueError("could not convert string to float")]
             ELSE IF ~rest.ok THEN rest
             ELSE [rest EXCEPT !.rows =
                      <<[query |-> r[1].v, target |-> r[2].v,
                         evalue |-> Float(r[3]), bits |-> Float(r[4]),
                         pident |-> Float(r[5]), alnlen |-> r[6].v,
                         qcov |-> Float(r[7]), tcov |-> Float(r[8])]>> \o @]

\* read_tsv: the loop over the records of csv.reader.  The first record
\* that raises ends the call; otherwise the parsed rows are returned.
RECURSIVE read_tsv(_)
read_tsv(recs) ==
    IF recs = <<>> THEN [ok |-> TRUE, rows |-> <<>>, err |-> NoErr]
    ELSE LET r == Head(recs)
         IN  IF Len(r) = 0 THEN read_tsv(Tail(recs))
             ELSE IF r[1].k = "cmt" THEN read_tsv(Tail(recs))
             ELSE IF Len(r) < 8 THEN
                 [ok |-> FALSE, rows |-> <<>>,
                  err |-> ValueError("Expected at least 8 columns per line")]
             ELSE IF ~(float_ok(r[3]) /\ float_ok(r[4]) /\ float_ok(r[5])) THEN
                 [ok |-> FALSE, rows |-> <<>>,
                  err |-> ValueError("could not convert string to float")]
             ELSE IF ~int_ok(r[6]) THEN
                 [ok |-> FALSE, rows |-> <<>>,
                  err |-> ValueError("invalid literal for int()")]
             ELSE IF ~(float_ok(r[7]) /\ float_ok(r[8])) THEN
                 [ok |-> FALSE, rows |-> <<>>,
                  err |-> ValueError("could not convert string to float")]
             ELSE LET rest == read_tsv(Tail(recs))
                  IN  IF ~rest.ok THEN rest
                      ELSE [rest EXCEPT !.rows =
                               <<[query |-> r[1].v, target |-> r[2].v,
                                  evalue |-> Float(r[3]), bits |-> Float(r[4]),
                                  pident |-> Float(r[5]), alnlen |-> r[6].v,
                                  qcov |-> Float(r[7]), tcov |-> Float(r[8])]>> \o @]

\* Mutant: the bitscore comparison of line 71 is reversed.
passes_filter_reversed(r, b, evalue_cutoff) ==
    r.evalue <= evalue_cutoff /\ r.bits <= 2 * b

\* Line 71: r['evalue'] <= evalue_cutoff and r['bits'] >= b (b an int).
passes_filter(r, b, evalue_cutoff) ==
    r.evalue <= evalue_cutoff /\ r.bits >= 2 * b

\* Line 75: the conservative subset of the filtered rows.
passes_cons(r, cons_pident, cons_qcov) ==
    r.pident >= cons_pident /\ r.qcov >= cons_qcov

\* Lines 72-85: the ThresholdSummary of one threshold.
summary_of(rs, b, a) ==
    LET filtered == SelectSeq(rs, LAMBDA r : passes_filter(r, b, a.evalue))
        cons == SelectSeq(filtered,
                          LAMBDA r : passes_cons(r, a.cons_pident, a.cons_qcov))
    IN  [threshold_bits |-> b,
         evalue_cutoff |-> a.evalue,
         n_hits_total |-> Len(filtered),
         n_unique_queries_total |-> Cardinality({filtered[i].query : i \in 1..Len(filtered)}),
         n_hits_conservative |-> Len(cons),
         n_unique_queries_conservative |-> Cardinality({cons[i].query : i \in 1..Len(cons)})]

\* Mutant: each threshold filters what the previous threshold kept.
RECURSIVE summaries_loop_cumulative(_, _, _)
summaries_loop_cumulative(rs, bl, a) ==
    IF bl = <<>> THEN <<>>
    ELSE <<summary_of(rs, Head(bl), a)>>
         \o summaries_loop_cumulative(
                SelectSeq(rs, LAMBDA r : passes_filter(r, Head(bl), a.evalue)),
                Tail(bl), a)

\* Lines 70-85: the loop over bits_list, each turn filtering all of rows.
RECURSIVE summaries_loop(_, _, _)
summaries_loop(rs, bl, a) ==
    IF bl = <<>> THEN <<>>
    ELSE <<summary_of(rs, Head(bl), a)>> \o summaries_loop(rs, Tail(bl), a)

\* Mutant: pass_bits_<b> tests the bitscore alone, without the e-value.
detailed_entry_bits_only(r, bl, a) ==
    LET pass_evalue == (r.evalue <= a.evalue)
    IN  [row |-> r,
         pass_evalue |-> pass_evalue,
         pass_bits |-> [b \in Range(bl) |-> r.bits >= 2 * b],
         pass_conservative |->
             (pass_evalue /\ r.pident >= a.cons_pident /\ r.qcov >= a.cons_qcov)]

\* Lines 89-93: the detailed entry of one row.  The pass_bits_<b> keys of
\* the dict are the distinct thresholds.
detailed_entry(r, bl, a) ==
    LET pass_evalue == (r.evalue <= a.evalue)
    IN  [row |-> r,
         pass_evalue |-> pass_evalue,
         pass_bits |-> [b \in Range(bl) |-> (r.bits >= 2 * b /\ pass_evalue)],
         pass_conservative |->
             (pass_evalue /\ r.pident >= a.cons_pident /\ r.qcov >= a.cons_qcov)]

\* Mutant: the detailed table keeps only the rows that pass the e-value.
detailed_loop_survivors(rs, bl, a) ==
    LET kept == SelectSeq(rs, LAMBDA r : r.evalue <= a.evalue)
    IN  [i \in 1..Len(kept) |-> detailed_entry(kept[i], bl, a)]

\* Lines 88-94: one entry per row, in the order of rows.
detailed_loop(rs, bl, a) ==
    [i \in 1..Len(rs) |-> detailed_entry(rs[i], bl, a)]

\* make_summaries
make_summaries(rs, bl, a) ==
    [summaries |-> summaries_loop(rs, bl, a),
     detailed |-> detailed_loop(rs, bl, a)]

\* write_detailed, lines 117-119: the row written for one entry, the pass
\* flags in the order of the header (one column per element of bits_list).
detailed_csv_row(d, bl) ==
    [row |-> d.row,
     pass_evalue |-> d.pass_evalue,
     pass_bits |-> [i \in 1..Len(bl) |-> d.pass_bits[bl[i]]],
     pass_conservative |-> d.pass_conservative]

\* ---- inputs of the sensitivity pipeline ----

BitsVals == 1..3
EvalueVals == 1..2
QueryVals == 1..2

\* A well-formed record.  Values are whole numbers except a bitscore given
\* as a decimal.
Record(q, ev, bits, pid, qc) ==
    <<TextField(q), TextField(1), IntField(ev), bits, IntField(pid),
      IntField(10), IntField(qc), IntField(3)>>

\* Replace field c of a record.
WithField(r, c, f) == [r EXCEPT ![c] = f]

GoodRecords ==
    {Record(1, 1, IntField(3), 2, 2),
     Record(2, 2, IntField(1), 1, 2),
     Record(1, 1, DecField(1), 2, 1)}

BaseRecord == Record(1, 1, IntField(2), 2, 2)

\* Records the reader skips, and records it rejects: seven fields, text in
\* a float column (first and last), text or a decimal in the int column.
SkippedRecords == {<<>>, <<CommentField>>}
BadRecords ==
    {SubSeq(BaseRecord, 1, 7),
     WithField(BaseRecord, 3, TextField(9)),
     WithField(BaseRecord, 8, TextField(9)),
     WithField(BaseRecord, 6, TextField(9)),
     WithField(BaseRecord, 6, DecField(10))}

RecordPool == GoodRecords \cup SkippedRecords \cup BadRecords

\* Parsed hits for the metrics engine taken alone: hits that meet the
\* conservative cutoffs, for every query, e-value and whole bitscore; hits
\* that miss the identity or the coverage cutoff; a hit with a bitscore
\* between two thresholds.
Hit(q, ev, bits, pid, qc) ==
    [query |-> q, target |-> 1, evalue |-> ev, bits |-> bits,
     pident |-> pid, alnlen |-> 10, qcov |-> qc, tcov |-> 6]

HitPool ==
    {Hit(q, 2 * ev, 2 * b, 4, 4) : q \in QueryVals, ev \in EvalueVals, b \in BitsVals}
    \cup {Hit(1, 2, 4, 2, 4), Hit(2, 2, 4, 4, 2), Hit(1, 2, 3, 4, 4)}

CovIdle ==
    /\ in_dir = <<>> /\ listing = <<>> /\ files = <<>> /\ idx = 0
    /\ depths = <<>> /\ metrics = <<0, 0, 0>> /\ out_csv = NoFile
    /\ cov_pc = "idle"

SensStart ==
    /\ rows = <<>> /\ summaries = <<>> /\ detailed = <<>>
    /\ \E f \in {NoFile, OldFile} : out_summary = f /\ out_detailed = f
    /\ err = NoErr

\* The whole run, from an input file of up to MaxRecords records.
InitSens ==
    /\ tsv \in SeqsUpTo(RecordPool, MaxRecords)
    /\ bits_list \in SeqsUpTo(1..2, MaxThresholds)
    /\ args = DefaultArgs
    /\ SensStart
    /\ sens_pc = "start"
    /\ CovIdle

\* make_summaries taken alone, on up to MaxHits parsed hits.
InitSumm ==
    /\ tsv = <<>>
    /\ bits_list \in SeqsUpTo(BitsVals, MaxThresholds)
    /\ args \in {[DefaultArgs EXCEPT !.evalue = 2 * e] : e \in EvalueVals}
    /\ rows \in SeqsUpTo(HitPool, MaxHits)
    /\ summaries = <<>> /\ detailed = <<>>
    /\ out_summary = NoFile /\ out_detailed = NoFile
    /\ err = NoErr
    /\ sens_pc = "read"
    /\ CovIdle

\* ---- main of make_sensitivity.py ----

\* Line 125, read_tsv returning.
SensRead ==
    /\ sens_pc = "start"
    /\ read_tsv(tsv).ok
    /\ rows' = read_tsv(tsv).rows
    /\ sens_pc' = "read"
    /\ UNCHANGED <<tsv, bits_list, args, summaries, detailed, out_summary,
                   out_detailed, err, cov_vars>>

\* Line 125, read_tsv raising: the exception ends main.
SensReadFails ==
    /\ sens_pc = "start"
    /\ ~read_tsv(tsv).ok
    /\ err' = read_tsv(tsv).err
    /\ sens_pc' = "failed"
    /\ UNCHANGED <<tsv, bits_list, args, rows, summaries, detailed,
                   out_summary, out_detailed, cov_vars>>

\* Line 126.
SensMake ==
    /\ sens_pc = "read"
    /\ LET res == make_summaries(rows, bits_list, args)
       IN  /\ summaries' = res.summaries
           /\ detailed' = res.detailed
    /\ sens_pc' = "made"
    /\ UNCHANGED <<tsv, bits_list, args, rows, out_summary, out_detailed,
                   err, cov_vars>>

\* Line 131, write_summaries: header, then one row per summary.
SensWriteSummaries ==
    /\ sens_pc = "made"
    /\ out_summary' = [open_w EXCEPT !.header = TRUE, !.rows = summaries]
    /\ sens_pc' = "wrote_summary"
    /\ UNCHANGED <<tsv, bits_list, args, rows, summaries, detailed,
                   out_detailed, err, cov_vars>>

\* Lines 132-135, write_detailed: header, then one row per entry.
SensWriteDetailed ==
    /\ sens_pc = "wrote_summary"
    /\ out_detailed' =
           [open_w EXCEPT !.header = TRUE,
                          !.rows = [i \in 1..Len(detailed) |->
                                       detailed_csv_row(detailed[i], bits_list)]]
    /\ sens_pc' = "done"
    /\ UNCHANGED <<tsv, bits_list, args, rows, summaries, detailed,
                   out_summary, err, cov_vars>>

NextSens ==
    \/ SensRead
    \/ SensReadFails
    \/ SensMake
    \/ SensWriteSummaries
    \/ SensWriteDetailed

SpecSens == InitSens /\ [][NextSens]_vars
SpecSumm == InitSumm /\ [][SensMake]_vars

----------------------------------------------------------------------------
(* The coverage pipeline as a state machine *)

\* ---- inputs of the coverage pipeline ----

NameChars == 0..2
NamePool == UNION {[1..k -> NameChars] : k \in 1..2}

DepthVals == (0 - 1)..MaxDepth

\* Lines a depth file may hold: well-formed ones for every depth value, a
\* blank line, a one-field line, a non-numeric depth, a non-numeric
\* position and a line with a third field.
LinePool ==
    {<<NumField(1), NumField(d)>> : d \in DepthVals}
    \cup {<<>>,
          <<NumField(1)>>,
          <<NumField(1), TxtField>>,
          <<TxtField, NumField(1)>>,
          <<NumField(1), NumField(2), TxtField>>}

\* An entry of the directory: a regular file with its lines, or a
\* sub-directory (os.listdir lists it, open() raises on it).
FileEntry(ls) == [kind |-> "file", lines |-> ls]
DirEntry == [kind |-> "dir", lines |-> <<>>]

SmallEntries ==
    {DirEntry, FileEntry(<<>>), FileEntry(<<<<NumField(1), NumField(1)>>>>),
     FileEntry(<<<<NumField(1), NumField(0)>>, <<NumField(2), NumField(2)>>>>)}

SensIdle ==
    /\ tsv = <<>> /\ bits_list = <<>> /\ args = DefaultArgs /\ rows = <<>> /\ summaries = <<>>
    /\ detailed = <<>> /\ out_summary = NoFile /\ out_detailed = NoFile
    /\ err = NoErr /\ sens_pc = "idle"

CovStart ==
    /\ listing = <<>> /\ files = <<>> /\ idx = 0 /\ depths = <<>>
    /\ metrics = <<0, 0, 0>> /\ out_csv \in {NoFile, OldFile}
    /\ cov_pc = "start"

\* Directories of up to MaxFiles entries with small contents.
InitCov ==
    /\ \E names \in SUBSET NamePool :
         /\ Cardinality(names) <= MaxFiles
         /\ in_dir \in [names -> SmallEntries]
    /\ CovStart
    /\ SensIdle

\* One depth file (or sub-directory) "a.depth" with any lines of LinePool.
InitFile ==
    /\ \E e \in {DirEntry} \cup {FileEntry(ls) : ls \in SeqsUpTo(LinePool, MaxLines)} :
         in_dir = (<<1, 0>> :> e)
    /\ CovStart
    /\ SensIdle

\* ---- main of compute_coverage_metrics.py ----

\* Lines 80-81: list the directory (in whatever order the system gives),
\* keep the names ending in '.depth', sort.
CovListFiles ==
    /\ cov_pc = "start"
    /\ \E l \in Perms(DOMAIN in_dir) :
         /\ listing' = l
         /\ files' = list_sort(depth_files(l))
    /\ cov_pc' = "open"
    /\ UNCHANGED <<in_dir, idx, depths, metrics, out_csv, sens_vars>>

\* Lines 83-85: open the output for writing (truncating) and write the header.
CovOpenOut ==
    /\ cov_pc = "open"
    /\ out_csv' = [open_w EXCEPT !.header = TRUE]
    /\ cov_pc' = "loop"
    /\ UNCHANGED <<in_dir, listing, files, idx, depths, metrics, sens_vars>>

\* Lines 86-92, one iteration: read the file, compute, write its row.
CovProcessFile ==
    /\ cov_pc = "loop"
    /\ idx < Len(files)
    /\ LET fn == files[idx + 1]
       IN  /\ in_dir[fn].kind = "file"
           /\ depths' = read_depth_file(in_dir[fn].lines)
           /\ metrics' = compute_metrics(depths')
           /\ out_csv' = [out_csv EXCEPT !.rows = Append(@, coverage_row(fn, metrics'))]
    /\ idx' = idx + 1
    /\ UNCHANGED <<in_dir, listing, files, cov_pc, sens_vars>>

\* Line 40 raising inside the loop: the exception leaves the with block of
\* line 83, which closes the output with what was written so far.
CovReadFails ==
    /\ cov_pc = "loop"
    /\ idx < Len(files)
    /\ in_dir[files[idx + 1]].kind = "dir"
    /\ cov_pc' = "failed"
    /\ UNCHANGED <<in_dir, listing, files, idx, depths, metrics, out_csv, sens_vars>>

\* End of the loop, line 93.
CovFinish ==
    /\ cov_pc = "loop"
    /\ idx = Len(files)
    /\ cov_pc' = "done"
    /\ UNCHANGED <<in_dir, listing, files, idx, depths, metrics, out_csv, sens_vars>>

NextCov ==
    \/ CovListFiles
    \/ CovOpenOut
    \/ CovProcessFile
    \/ CovReadFails
    \/ CovFinish

SpecCov == InitCov /\ [][NextCov]_vars
SpecFile == InitFile /\ [][NextCov]_vars

----------------------------------------------------------------------------
(* Properties of the coverage pipeline *)

\* The file the one-file specification processes, once the loop has done it.
FileProcessed == cov_pc \in {"loop", "done"} /\ idx = 1
TheLines == in_dir[files[1]].lines

\* A line the reader keeps: at least two fields, the second one a number.
ValidLine(parts) == Len(parts) >= 2 /\ parts[2].num
ValidDepths(lines) ==
    LET kept == SelectSeq(lines, ValidLine)
    IN  [i \in 1..Len(kept) |-> kept[i][2].v]

\* 1 - pstdev/mean clamped to [0, 1], in units of 1/Scale.
ClampedEvenness(ds, mean) ==
    LET e == Scale - ((pstdev(ds) * Scale) \div mean)
    IN  IF e < 0 THEN 0 ELSE IF e > Scale THEN Scale ELSE e

\* C3: for every depth sequence the reader can produce, compute_metrics
\* gives breadth_pct in [0,100], mean_depth >= 0 and evenness in [0,1].
C3_MetricsInRange ==
    FileProcessed =>
        /\ metrics[1] >= 0 /\ metrics[1] <= 100 * Scale
        /\ metrics[2] >= 0
        /\ metrics[3] >= 0 /\ metrics[3] <= Scale

\* C4 as stated: evenness is 0 whenever mean_depth <= 0 or there is at most
\* one data point, and 1 - pstdev/mean clamped to [0,1] otherwise.
C4_Original ==
    FileProcessed =>
        metrics[3] = IF metrics[2] <= 0 \/ Len(depths) <= 1 THEN 0
                     ELSE ClampedEvenness(depths, metrics[2])

\* C4 as amended: evenness is 0 whenever mean_depth <= 0 (the empty
\* sequence included), and 1 - pstdev/mean clamped to [0,1] otherwise, the
\* deviation of a single data point being 0, so that a single positive depth
\* has evenness 1.
C4_Evenness ==
    FileProcessed =>
        /\ metrics[3] = IF metrics[2] <= 0 THEN 0
                        ELSE ClampedEvenness(depths, metrics[2])
        /\ (Len(depths) = 1 /\ metrics[2] > 0) => metrics[3] = Scale
        /\ depths = <<>> => metrics[3] = 0

\* A single data point of positive depth has been processed: its evenness
\* is 1, not 0.
C4_Witness ==
    /\ FileProcessed
    /\ Len(depths) = 1
    /\ metrics[2] > 0
    /\ metrics[3] = Scale

\* C8: the coverage reader does not fail on malformed lines; the depth
\* sequence is the second field of the lines that have two fields and a
\* numeric second field, in file order; a file without a valid line gives
\* the empty sequence and a row with breadth 0, mean depth 0, evenness 0.
C8_ReaderTolerant ==
    /\ \A fn \in DOMAIN in_dir :
         (cov_pc = "failed" /\ idx < Len(files) /\ files[idx + 1] = fn)
             => in_dir[fn].kind # "file"
    /\ FileProcessed =>
         /\ depths = ValidDepths(TheLines)
         /\ (\A i \in 1..Len(TheLines) : ~ValidLine(TheLines[i])) =>
              /\ depths = <<>>
              /\ Len(out_csv.rows) = 1
              /\ out_csv.rows[1].breadth_pct = fmt3(0)
              /\ out_csv.rows[1].mean_depth = fmt3(0)
              /\ out_csv.rows[1].cov_evenness = fmt3(0)

\* A file with a short line, a non-numeric depth and one valid line has been
\* read to the end: two lines dropped, one depth kept.
C8_Witness ==
    /\ cov_pc = "done"
    /\ idx = 1
    /\ \E i, j \in 1..Len(TheLines) :
         /\ Len(TheLines[i]) = 1
         /\ Len(TheLines[j]) = 2 /\ ~TheLines[j][2].num
    /\ Len(depths) = 1

\* The names of the directory that end in the depth suffix, in increasing
\* order of StrLess.
DepthNames == {f \in DOMAIN in_dir : endswith(f, DepthSuffix)}
SortedDepthNames ==
    CHOOSE s \in Perms(DepthNames) :
        \A i, j \in 1..Len(s) : i < j => StrLess(s[i], s[j])

\* The row of a depth file, as the directory alone determines it.
ExpectedRow(fn) ==
    LET m == compute_metrics(ValidDepths(in_dir[fn].lines))
    IN  [target |-> SubSeq(fn, 1, Len(fn) - Len(DepthSuffix)),
         breadth_pct |-> fmt3(m[1]),
         mean_depth |-> fmt3(m[2]),
         cov_evenness |-> fmt3(m[3]),
         pass_conservative |->
             IF m[3] >= evenness_cutoff /\ m[1] >= breadth_cutoff THEN 1 ELSE 0]

\* C10: the rows of the coverage report are those of the files named
\* *.depth, in lexicographic order of the names whatever order the listing
\* has; a finished report has exactly one row per such file and is a
\* function of the directory alone; with no such file it is the header only.
C10_SortedReport ==
    /\ Len(out_csv.rows) <= Cardinality(DepthNames)
    /\ \A i \in 1..Len(out_csv.rows) :
         out_csv.rows[i] = ExpectedRow(SortedDepthNames[i])
    /\ cov_pc = "done" =>
         /\ out_csv.state = "new" /\ out_csv.header
         /\ Len(out_csv.rows) = Cardinality(DepthNames)
         /\ DepthNames = {} => out_csv.rows = <<>>

\* A report is finished for two depth files that the listing returned in
\* decreasing order.
C10_Witness ==
    /\ cov_pc = "done"
    /\ Len(out_csv.rows) = 2
    /\ \E i, j \in 1..Len(listing) :
         /\ i < j
         /\ endswith(listing[i], DepthSuffix)
         /\ endswith(listing[j], DepthSuffix)
         /\ StrLess(listing[j], listing[i])

\* C2: a run that terminates leaves each output file either not written at
\* all or complete, never with the header and a strict prefix of its rows.
C2_AllOrNothing ==
    /\ cov_pc \in {"done", "failed"} =>
         \/ out_csv.state # "new"
         \/ out_csv.header /\ Len(out_csv.rows) = Cardinality(DepthNames)
    /\ sens_pc \in {"done", "failed"} =>
         /\ \/ out_summary.state # "new"
            \/ out_summary.header /\ Len(out_summary.rows) = Len(bits_list)
         /\ \/ out_detailed.state # "new"
            \/ out_detailed.header /\ Len(out_detailed.rows) = Len(rows)

----------------------------------------------------------------------------
(* Properties of the sensitivity pipeline *)

\* The records that are data: not blank, not a comment.
IsData(r) == Len(r) > 0 /\ r[1].k # "cmt"
DataRecords == SelectSeq(tsv, IsData)

\* A data record with fewer than 8 fields or with text that is no number
\* in one of the numeric columns 3..8.
IsBad(r) ==
    /\ IsData(r)
    /\ \/ Len(r) < 8
       \/ \E c \in 3..8 : r[c].k \in {"txt", "cmt"}
BadLines == {i \in 1..Len(tsv) : IsBad(tsv[i])}

\* C1: if any data record of the TSV has fewer than 8 fields or a
\* non-numeric value in a numeric column, the run never gets past read_tsv,
\* ends failed, and neither output file is created or modified, wherever
\* the bad record stands.
C1_BadRowAborts ==
    BadLines # {} =>
        /\ sens_pc \in {"start", "failed"}
        /\ out_summary.state # "new"
        /\ out_detailed.state # "new"
        /\ rows = <<>>

\* The run has failed on a file whose bad record is the last of three, after
\* two good ones, with both output files left from an earlier run.
C1_Witness ==
    /\ sens_pc = "failed"
    /\ Len(tsv) = 3
    /\ BadLines = {3}
    /\ Len(DataRecords) = 3
    /\ out_summary = OldFile
    /\ out_detailed = OldFile

\* C9: when the reader rejects a record, the error that reaches the caller
\* names the line number of the offending record and the input file.
C9_ErrorNamesLine ==
    sens_pc = "failed" =>
        /\ err.lineno \in BadLines
        /\ err.path = args.infile

\* C6: the detailed table has exactly one row per data record of the input,
\* in input order, none dropped or duplicated, whatever the flags and the
\* thresholds: in main's `rows`, in `detailed` and in the file written.
RowOfRecord(r) ==
    [query |-> r[1].v, target |-> r[2].v, evalue |-> Float(r[3]),
     bits |-> Float(r[4]), pident |-> Float(r[5]), alnlen |-> r[6].v,
     qcov |-> Float(r[7]), tcov |-> Float(r[8])]

C6_OneRowPerHit ==
    /\ sens_pc \in {"read", "made", "wrote_summary", "done"} =>
         /\ Len(rows) = Len(DataRecords)
         /\ \A i \in 1..Len(rows) : rows[i] = RowOfRecord(DataRecords[i])
    /\ sens_pc \in {"made", "wrote_summary", "done"} =>
         /\ Len(detailed) = Len(DataRecords)
         /\ \A i \in 1..Len(detailed) : detailed[i].row = RowOfRecord(DataRecords[i])
    /\ sens_pc = "done" =>
         /\ out_detailed.state = "new" /\ out_detailed.header
         /\ Len(out_detailed.rows) = Len(DataRecords)
         /\ \A i \in 1..Len(out_detailed.rows) :
              /\ out_detailed.rows[i].row = RowOfRecord(DataRecords[i])
              /\ Len(out_detailed.rows[i].pass_bits) = Len(bits_list)

\* A detailed table of three rows has been written of which one passes the
\* e-value cutoff and one does not.
C6_Witness ==
    /\ sens_pc = "done"
    /\ Len(out_detailed.rows) = 3
    /\ Len(bits_list) = 2
    /\ \E i, j \in 1..3 :
         /\ out_detailed.rows[i].pass_evalue
         /\ ~out_detailed.rows[j].pass_evalue

\* The hits that survive threshold b: counted over all of rows.
Survivors(b) ==
    {k \in 1..Len(rows) : rows[k].evalue <= args.evalue /\ rows[k].bits >= 2 * b}
ConsSurvivors(b) ==
    {k \in Survivors(b) :
        rows[k].pident >= args.cons_pident /\ rows[k].qcov >= args.cons_qcov}

\* C5: for thresholds b1 < b2 of the list, whatever their positions, the
\* summary of b2 counts no more hits than the summary of b1.
C5_Monotone ==
    sens_pc = "made" =>
        \A i, j \in 1..Len(summaries) :
            summaries[i].threshold_bits < summaries[j].threshold_bits
                => summaries[j].n_hits_total <= summaries[i].n_hits_total

\* Summaries exist for an unsorted list of two thresholds with strictly
\* fewer hits at the higher one.
C5_Witness ==
    /\ sens_pc = "made"
    /\ Len(summaries) = 2
    /\ summaries[1].threshold_bits > summaries[2].threshold_bits
    /\ summaries[1].n_hits_total < summaries[2].n_hits_total

\* C7: one summary per entry of the threshold list, in the order of the
\* list, duplicates kept; the counts for threshold b are those of the hits
\* of the full set that pass b and the cutoffs, whatever else the list holds.
C7_PerThreshold ==
    sens_pc = "made" =>
        /\ Len(summaries) = Len(bits_list)
        /\ \A i \in 1..Len(summaries) :
             LET b == bits_list[i]
                 sm == summaries[i]
             IN  /\ sm.threshold_bits = b
                 /\ sm.evalue_cutoff = args.evalue
                 /\ sm.n_hits_total = Cardinality(Survivors(b))
                 /\ sm.n_unique_queries_total =
                        Cardinality({rows[k].query : k \in Survivors(b)})
                 /\ sm.n_hits_conservative = Cardinality(ConsSurvivors(b))
                 /\ sm.n_unique_queries_conservative =
                        Cardinality({rows[k].query : k \in ConsSurvivors(b)})
                 /\ sm = make_summaries(rows, <<b>>, args).summaries[1]

\* Summaries exist for a list with the higher threshold first, where a hit
\* passes the lower threshold only.
C7_Witness ==
    /\ sens_pc = "made"
    /\ Len(bits_list) = 2
    /\ bits_list[1] > bits_list[2]
    /\ Survivors(bits_list[1]) # Survivors(bits_list[2])

\* The detailed rows flagged for threshold b, and those of them that are
\* flagged conservative as well.
FlaggedRows(b) == {k \in 1..Len(detailed) : detailed[k].pass_bits[b]}
FlaggedConsRows(b) == {k \in FlaggedRows(b) : detailed[k].pass_conservative}

\* C11: the two tables of one call of make_summaries agree: for every
\* declared threshold b, n_hits_total(b) is the number of detailed rows
\* whose pass_bits_b flag is true, and n_hits_conservative(b) the number of
\* detailed rows whose pass_bits_b and pass_conservative flags are both true.
C11_TablesAgree ==
    sens_pc = "made" =>
        \A i \in 1..Len(summaries) :
            LET b == summaries[i].threshold_bits
            IN  /\ \A k \in 1..Len(detailed) : b \in DOMAIN detailed[k].pass_bits
                /\ summaries[i].n_hits_total = Cardinality(FlaggedRows(b))
                /\ summaries[i].n_hits_conservative = Cardinality(FlaggedConsRows(b))

\* Both tables exist for two hits that reach a declared threshold, of which
\* one fails the e-value cutoff and one passes it without meeting the
\* conservative cutoffs: the threshold counts one hit and no conservative hit.
C11_Witness ==
    /\ sens_pc = "made"
    /\ Len(detailed) = 2
    /\ \E i \in 1..Len(summaries) :
         LET b == summaries[i].threshold_bits
         IN  /\ \A k \in 1..2 : detailed[k].row.bits >= 2 * b
             /\ \E k \in 1..2 : ~detailed[k].pass_evalue
             /\ \E k \in 1..2 : detailed[k].pass_bits[b] /\ ~detailed[k].pass_conservative
             /\ summaries[i].n_hits_total = 1
             /\ summaries[i].n_hits_conservative = 0

====
